---- MODULE Spec2Model ----
(***************************************************************************)
(* Model of src/collapse/vsprof.rs: the stack collapser for the output of  *)
(* the Visual Studio built in profiler.                                    *)
(*                                                                         *)
(* Text is modelled as a sequence of one-character strings.  The header    *)
(* signature START_LINE is one indivisible token of such a sequence.       *)
(***************************************************************************)
EXTENDS Integers, Sequences, FiniteSets, TLC

VARIABLES
    phase,      \* "idle": no collapse call is running; "data": inside the data loop; "panicked"
    result,     \* what the last finished collapse call returned: "none", "ok", "err"
    start,      \* Folder.stack when the running (or last) collapse call began
    stack,      \* Folder.stack: sequence of [f |-> name, n |-> number of calls,
                \* o |-> the number of calls reported on the frame's line]
    samples,    \* the calls occurrences.insert(path, nsamples) of the running call, in order
    out,        \* what the last collapse call wrote to its writer
    hist,       \* the (depth, name, calls) triples on_line has accepted in the running call
    last,       \* the last step: what it did, the text it read, the stack before it
                \* and the samples it emitted
    nlines,     \* number of data lines read so far
    fresh,      \* a Folder::default() given the same input as the running call
    numIn,      \* input text of get_next_number
    numOut,     \* what get_next_number returned for numIn
    probeIn,    \* input text of is_applicable
    probeOut    \* what is_applicable returned for probeIn

vars == <<phase, result, start, stack, samples, out, hist, last, nlines, fresh, numIn,
          numOut, probeIn, probeOut>>

-----------------------------------------------------------------------------
(* Bounds *)

MaxLines == 4
MaxDepth == 3
MaxTreeLines == 5
MaxFieldLen == 5
MaxNumber == 1100
MaxProbeLen == 4
MaxScenarioLines == 5
MaxShapeLines == 3
MaxPathLines == 4

-----------------------------------------------------------------------------
(* Text helpers: the str methods the code uses *)

Digits == {"0", "1", "2", "3", "4", "5", "6", "7", "8", "9"}

DigitVal(c) ==
    CASE c = "0" -> 0 [] c = "1" -> 1 [] c = "2" -> 2 [] c = "3" -> 3
      [] c = "4" -> 4 [] c = "5" -> 5 [] c = "6" -> 6 [] c = "7" -> 7
      [] c = "8" -> 8 [] c = "9" -> 9

DigitChar(d) == <<"0", "1", "2", "3", "4", "5", "6", "7", "8", "9">>[d + 1]

Whitespace == {" ", "\n", "\r", "\t"}

None == [some |-> FALSE]

\* str::strip_prefix(char)
StripPrefix(s, c) ==
    IF Len(s) > 0 /\ s[1] = c THEN [some |-> TRUE, val |-> Tail(s)] ELSE None

\* index of the first element of s satisfying membership in set cs, 0 if none
FirstIn(s, cs) ==
    IF \E i \in 1..Len(s) : s[i] \in cs
    THEN CHOOSE i \in 1..Len(s) : s[i] \in cs /\ \A j \in 1..(i - 1) : s[j] \notin cs
    ELSE 0

\* str::split_once(char)
SplitOnce(s, c) ==
    LET i == FirstIn(s, {c})
    IN  IF i = 0 THEN None
        ELSE [some |-> TRUE, left |-> SubSeq(s, 1, i - 1), right |-> SubSeq(s, i + 1, Len(s))]

\* str::split(|c| !c.is_ascii_digit()), collected
RECURSIVE SplitNonDigit(_)
SplitNonDigit(s) ==
    LET i == IF \E k \in 1..Len(s) : s[k] \notin Digits
             THEN CHOOSE k \in 1..Len(s) :
                      s[k] \notin Digits /\ \A j \in 1..(k - 1) : s[j] \in Digits
             ELSE 0
    IN  IF i = 0 THEN <<s>>
        ELSE <<SubSeq(s, 1, i - 1)>> \o SplitNonDigit(SubSeq(s, i + 1, Len(s)))

\* str::parse::<usize>() of a text that holds ASCII digits only (the pieces of
\* SplitNonDigit); the empty text does not parse
RECURSIVE DigitsValue(_)
DigitsValue(t) ==
    IF t = <<>> THEN 0
    ELSE 10 * DigitsValue(SubSeq(t, 1, Len(t) - 1)) + DigitVal(t[Len(t)])

ParseUsize(t) ==
    IF t = <<>> THEN [ok |-> FALSE] ELSE [ok |-> TRUE, val |-> DigitsValue(t)]

\* str::trim_end()
RECURSIVE TrimEnd(_)
TrimEnd(s) ==
    IF Len(s) > 0 /\ s[Len(s)] \in Whitespace THEN TrimEnd(SubSeq(s, 1, Len(s) - 1)) ELSE s

\* str::trim_start()
RECURSIVE TrimStart(_)
TrimStart(s) ==
    IF Len(s) > 0 /\ s[1] \in Whitespace THEN TrimStart(Tail(s)) ELSE s

Trim(s) == TrimEnd(TrimStart(s))

-----------------------------------------------------------------------------
(* get_next_number.  The texts of the model hold at most three groups of
   digits, so n stays far below the width of usize. *)

\* the body of `for thousand in thousands`, from the group at index i on, with
\* the value n accumulated so far
RECURSIVE ParseThousands(_, _, _)
ParseThousands(thousands, i, n) ==
    IF i > Len(thousands) THEN [ok |-> TRUE, n |-> n]
    ELSE LET thousand == thousands[i]
         IN  IF n = 0 /\ Len(thousand) > 3
                 THEN [ok |-> FALSE, err |-> "expected thousands separators"]
             ELSE IF n # 0 /\ Len(thousand) # 3
                 THEN [ok |-> FALSE, err |-> "floating point"]
             ELSE IF ~ParseUsize(thousand).ok
                 THEN [ok |-> FALSE, err |-> "unable to parse number"]
             ELSE ParseThousands(thousands, i + 1, n * 1000 + ParseUsize(thousand).val)

\* Remainder without the removal of the comma that follows a quoted number
RemainderKeepsComma(remove_leading_comma, remainder) == remainder

\* the remainder get_next_number returns after the number
Remainder(remove_leading_comma, remainder) ==
    IF remove_leading_comma /\ StripPrefix(remainder, ",").some
    THEN StripPrefix(remainder, ",").val
    ELSE remainder

\* the result of get_next_number once the number is parsed (lines 193-232)
NumberResult(parsed, remove_leading_comma, remainder) ==
    IF ~parsed.ok THEN parsed
    ELSE [ok |-> TRUE, n |-> parsed.n, rest |-> Remainder(remove_leading_comma, remainder)]

\* get_next_number from `if let Some((num, remainder)) = field` on
NumberOfField(remove_leading_comma, field) ==
    IF field.some
    THEN NumberResult(ParseThousands(SplitNonDigit(field.left), 1, 0),
                      remove_leading_comma, field.right)
    ELSE [ok |-> FALSE, err |-> "invalid number in line"]

\* get_next_number after the leading comma is trimmed (lines 185-191)
NumberOfTrimmed(trimmed) ==
    IF StripPrefix(trimmed, "\"").some
    THEN NumberOfField(TRUE, SplitOnce(Tail(trimmed), "\""))
    ELSE NumberOfField(FALSE, SplitOnce(trimmed, ","))

get_next_number(text) ==
    NumberOfTrimmed(IF StripPrefix(text, ",").some THEN Tail(text) ELSE text)

-----------------------------------------------------------------------------
(* The report format *)

START_LINE == <<"Level,Function Name,Number of Calls,Elapsed Inclusive Time %,Elapsed Exclusive Time %,Avg Elapsed Inclusive Time,Avg Elapsed Exclusive Time,Module Name,">>

BOM == "\\ufeff"

\* str::trim_start_matches(char)
RECURSIVE TrimStartMatches(_, _)
TrimStartMatches(s, c) ==
    IF Len(s) > 0 /\ s[1] = c THEN TrimStartMatches(Tail(s), c) ELSE s

\* starts_with written as an equality
StartsWithAll(s, prefix) == s = prefix

\* str::starts_with(&str)
StartsWith(s, prefix) ==
    Len(s) >= Len(prefix) /\ SubSeq(s, 1, Len(prefix)) = prefix

line_matches_start_line(text) ==
    StartsWith(TrimStartMatches(Trim(text), BOM), START_LINE)

\* decimal digits of n, most significant first
RECURSIVE DigitsOf(_)
DigitsOf(n) ==
    IF n < 10 THEN <<DigitChar(n)>> ELSE DigitsOf(n \div 10) \o <<DigitChar(n % 10)>>

\* exactly three digits of n < 1000
ThreeDigits(n) ==
    <<DigitChar(n \div 100), DigitChar((n \div 10) % 10), DigitChar(n % 10)>>

\* n with a comma every three digits
RECURSIVE Grouped(_)
Grouped(n) ==
    IF n < 1000 THEN DigitsOf(n)
    ELSE Grouped(n \div 1000) \o <<",">> \o ThreeDigits(n % 1000)

\* a number field as the profiler writes it: bare below 1000, quoted and
\* grouped from 1000 on, each followed by the field separator
FormatNumber(n) ==
    IF n < 1000 THEN DigitsOf(n) \o <<",">>
    ELSE <<"\"">> \o Grouped(n) \o <<"\"", ",">>

\* the fields after the number of calls: four numeric fields, the module name
RestFields ==
    <<"0", ".", "5", ",", "0", ".", "5", ",", "0", ".", "5", ",", "0", ".", "5", ",",
      "\"", "m", "\"", ",">>

FormatLine(depth, function_name, number_of_calls, rest) ==
    FormatNumber(depth) \o <<"\"">> \o function_name \o <<"\"", ",">>
        \o FormatNumber(number_of_calls) \o rest

-----------------------------------------------------------------------------
(* Folder *)

Frame(function_name, number_of_calls) ==
    [f |-> function_name, n |-> number_of_calls, o |-> number_of_calls]

Pop(stk) == SubSeq(stk, 1, Len(stk) - 1)

\* functions.join(";")
RECURSIVE JoinNames(_)
JoinNames(stk) ==
    IF Len(stk) = 0 THEN <<>>
    ELSE IF Len(stk) = 1 THEN stk[1].f
    ELSE JoinNames(Pop(stk)) \o <<";">> \o stk[Len(stk)].f

\* write_stack without the filter on the number of samples
write_stack_unfiltered(stk) ==
    IF Len(stk) > 0
    THEN <<[path |-> JoinNames(stk), w |-> stk[Len(stk)].n]>>
    ELSE <<>>

\* write_stack taking the number of samples from the first frame
write_stack_first(stk) ==
    IF Len(stk) > 0 /\ stk[1].n > 0
    THEN <<[path |-> JoinNames(stk), w |-> stk[1].n]>>
    ELSE <<>>

\* write_stack naming the top frame only
write_stack_leaf(stk) ==
    IF Len(stk) > 0 /\ stk[Len(stk)].n > 0
    THEN <<[path |-> stk[Len(stk)].f, w |-> stk[Len(stk)].n]>>
    ELSE <<>>

\* Folder::write_stack: the occurrences.insert calls it makes
write_stack(stk) ==
    IF Len(stk) > 0 /\ stk[Len(stk)].n > 0
    THEN <<[path |-> JoinNames(stk), w |-> stk[Len(stk)].n]>>
    ELSE <<>>

\* the subtraction of case 3 written as an addition
SubtractCallsAdds(stk, prev_number_of_calls) ==
    LET top == Len(stk)
    IN  IF prev_number_of_calls < stk[top].n
        THEN [stk EXCEPT ![top].n = @ + prev_number_of_calls]
        ELSE stk

\* the subtraction of case 3 applied to every frame left on the stack
SubtractFromAncestors(stk, prev_number_of_calls) ==
    [i \in 1..Len(stk) |->
        IF prev_number_of_calls < stk[i].n
        THEN [stk[i] EXCEPT !.n = @ - prev_number_of_calls]
        ELSE stk[i]]

\* the subtraction of case 3 also made when the two counts are equal
SubtractCallsOrEqual(stk, prev_number_of_calls) ==
    LET top == Len(stk)
    IN  IF prev_number_of_calls <= stk[top].n
        THEN [stk EXCEPT ![top].n = @ - prev_number_of_calls]
        ELSE stk

\* the subtraction of case 3, applied to the frame that became the top
SubtractCalls(stk, prev_number_of_calls) ==
    LET top == Len(stk)
    IN  IF prev_number_of_calls < stk[top].n
        THEN [stk EXCEPT ![top].n = @ - prev_number_of_calls]
        ELSE stk

\* the loop of case 3 running one iteration short
AscendCountShort(prev_depth, depth) == prev_depth - depth

\* the loop of case 3 running one iteration more
AscendCountLong(prev_depth, depth) == prev_depth - depth + 2

\* number of iterations of the loop of case 3
AscendCount(prev_depth, depth) == prev_depth - depth + 1

\* every iteration of the loop of case 3 calling write_stack
AscendWritesAlways(prev_number_of_calls, stk) == TRUE

\* whether an iteration of the loop of case 3 calls write_stack
AscendWrites(prev_number_of_calls, stk) ==
    prev_number_of_calls # stk[Len(stk)].n

\* the loop of case 3 with k iterations left
RECURSIVE AscendLoop(_, _, _, _)
AscendLoop(stk, k, prev_number_of_calls, emitted) ==
    IF k = 0 THEN [stack |-> stk, emitted |-> emitted]
    ELSE LET em == IF AscendWrites(prev_number_of_calls, stk)
                   THEN emitted \o write_stack(stk) ELSE emitted
             prev == stk[Len(stk)].n
             popped == Pop(stk)
         IN  IF popped = <<>> THEN [stack |-> popped, emitted |-> em]
             ELSE AscendLoop(SubtractCalls(popped, prev), k - 1, prev, em)

\* case 1 without its assertion
DepthUnchecked(prev_depth, depth) == TRUE

\* case 1 asserts prev_depth + 1 == depth
DepthFollows(prev_depth, depth) == prev_depth + 1 = depth

\* case 1 calling write_stack as case 2 does
DescendWrites(stk, frame) ==
    [stack |-> Append(stk, frame), emitted |-> write_stack(stk)]

\* case 1: a new function is called
Descend(stk, frame) ==
    [stack |-> Append(stk, frame), emitted |-> <<>>]

\* case 2 subtracting the closed leaf's count from its parent as case 3 does
SiblingSubtracts(stk, frame) ==
    [stack |-> Append(IF Pop(stk) = <<>> THEN <<>>
                      ELSE SubtractCalls(Pop(stk), stk[Len(stk)].n), frame),
     emitted |-> write_stack(stk)]

\* case 2: the previous function call was a leaf node
Sibling(stk, frame) ==
    [stack |-> Append(Pop(stk), frame), emitted |-> write_stack(stk)]

\* case 3: pop the top nodes until the top node is the parent
Ascend(stk, depth, frame) ==
    LET loop == AscendLoop(stk, AscendCount(Len(stk), depth), 0, <<>>)
    IN  [stack |-> Append(loop.stack, frame), emitted |-> loop.emitted]

\* the match on prev_depth.cmp(&depth)
Reconstruct(stk, depth, function_name, number_of_calls) ==
    LET prev_depth == Len(stk)
        frame == Frame(function_name, number_of_calls)
    IN  IF prev_depth < depth
        THEN IF ~DepthFollows(prev_depth, depth)
             THEN [kind |-> "panic", case |-> "panic", stack |-> stk, emitted |-> <<>>]
             ELSE [kind |-> "ok", case |-> "descend"] @@ Descend(stk, frame)
        ELSE IF prev_depth = depth
        THEN [kind |-> "ok", case |-> "sibling"] @@ Sibling(stk, frame)
        ELSE [kind |-> "ok", case |-> "ascend"] @@ Ascend(stk, depth, frame)

\* number_of_calls accepted only when something follows its field
ParseCallsNeedsRest(depth, function_name, c) ==
    IF ~c.ok THEN [ok |-> FALSE, err |-> c.err]
    ELSE IF c.rest = <<>> THEN [ok |-> FALSE, err |-> "remaining fields"]
    ELSE [ok |-> TRUE, depth |-> depth, function_name |-> function_name,
          number_of_calls |-> c.n]

\* on_line from the second get_next_number on (line 91)
ParseCalls(depth, function_name, c) ==
    IF ~c.ok THEN [ok |-> FALSE, err |-> c.err]
    ELSE [ok |-> TRUE, depth |-> depth, function_name |-> function_name,
          number_of_calls |-> c.n]

\* on_line from `if let Some((function_name, remainder)) = split` on (line 90)
ParseSplit(depth, split) ==
    IF ~split.some THEN [ok |-> FALSE, err |-> "function name"]
    ELSE ParseCalls(depth, split.left, get_next_number(split.right))

\* on_line after the first get_next_number (lines 84-88)
ParseName(d) ==
    IF ~d.ok THEN [ok |-> FALSE, err |-> d.err]
    ELSE IF ~StripPrefix(d.rest, "\"").some THEN [ok |-> FALSE, err |-> "function name"]
    ELSE ParseSplit(d.n, SplitOnce(Tail(d.rest), "\""))

\* the three fields on_line extracts from a line
ParseLine(text) == ParseName(get_next_number(text))

\* on_line once the fields are extracted
OnLineParsed(stk, p) ==
    IF ~p.ok
    THEN [kind |-> "err", case |-> "parse_error", stack |-> stk, emitted |-> <<>>]
    ELSE Reconstruct(stk, p.depth, p.function_name, p.number_of_calls)

\* Folder::on_line
on_line(stk, text) == OnLineParsed(stk, ParseLine(text))

\* Occurrences::write_and_clear: one line per distinct path, with the sum of
\* the weights inserted for it
RECURSIVE WeightOf(_, _)
WeightOf(smp, path) ==
    IF smp = <<>> THEN 0
    ELSE WeightOf(Tail(smp), path) + (IF Head(smp).path = path THEN Head(smp).w ELSE 0)

write_and_clear(smp) ==
    {[path |-> p, w |-> WeightOf(smp, p)] : p \in {smp[i].path : i \in 1..Len(smp)}}

\* the first element of str::lines(): the text before the first line feed,
\* without a carriage return at its end
FirstLine(input) ==
    IF FirstIn(input, {"\n"}) = 0 THEN input
    ELSE IF FirstIn(input, {"\n"}) > 1 /\ input[FirstIn(input, {"\n"}) - 1] = "\r"
    THEN SubSeq(input, 1, FirstIn(input, {"\n"}) - 2)
    ELSE SubSeq(input, 1, FirstIn(input, {"\n"}) - 1)

\* Folder::is_applicable: lines() of the empty text has no first element and
\* the expect panics
is_applicable(input) ==
    IF input = <<>> THEN "panic"
    ELSE IF line_matches_start_line(FirstLine(input)) THEN "true" ELSE "false"

-----------------------------------------------------------------------------
(* Inputs *)

Names == {<<"a">>}

Headers ==
    { START_LINE \o <<"\n">>,
      <<BOM>> \o START_LINE \o <<"\n">>,
      <<"x", "\n">> }

Calls == {0, 1, 2, 3}

\* lines in the report format, as read_until returns them
GoodLines ==
    { FormatLine(d, f, c, <<"\n">>) : d \in 1..MaxDepth, f \in Names, c \in Calls }
        \cup { FormatLine(1, <<"a">>, 1, RestFields \o <<"\n">>) }

\* lines in the report format whose level is 0
ZeroDepthLines == { FormatLine(0, <<"a">>, 2, <<"\n">>) }

BadLines ==
    { <<"x", "\n">>,
      <<"1", ",", "a", ",", "1", ",", "\n">>,
      <<"1", ",", "\"", "a", "\"", ",", "1", ".", "5", ",", "\n">> }

BlankLines == { <<" ", "\n">> }

RawLines == GoodLines \cup ZeroDepthLines \cup BadLines \cup BlankLines

-----------------------------------------------------------------------------
(* Folder::collapse *)

NoStep == [op |-> "init", text |-> <<>>, prev |-> <<>>, emitted |-> <<>>]

FreshFolder == [phase |-> "idle", stack |-> <<>>, samples |-> <<>>, out |-> {}]

\* what the data loop and the end of collapse do to a Folder::default() that
\* is given the text the running call is given
FreshAfter(fr, r) ==
    IF r.kind = "ok"
    THEN [fr EXCEPT !.stack = r.stack, !.samples = @ \o r.emitted]
    ELSE [fr EXCEPT !.phase = r.kind]

FreshLine(fr, text) ==
    IF fr.phase # "data" THEN fr ELSE FreshAfter(fr, on_line(fr.stack, text))

FreshWrite(smp) ==
    [phase |-> "ok", stack |-> <<>>, samples |-> smp, out |-> write_and_clear(smp)]

FreshEnd(fr) ==
    IF fr.phase # "data" THEN fr ELSE FreshWrite(fr.samples \o write_stack(fr.stack))

Init ==
    /\ phase = "idle"
    /\ result = "none"
    /\ start = <<>>
    /\ stack = <<>>
    /\ samples = <<>>
    /\ out = {}
    /\ hist = <<>>
    /\ last = NoStep
    /\ nlines = 0
    /\ fresh = FreshFolder
    /\ numIn = [kind |-> "none"]
    /\ numOut = [ok |-> FALSE, err |-> "pending"]
    /\ probeIn = <<>>
    /\ probeOut = "pending"

\* collapse on an input with no line at all (lines 23-27)
CollapseEmpty ==
    /\ phase = "idle"
    /\ start' = stack
    /\ result' = "ok"
    /\ samples' = <<>>
    /\ out' = {}
    /\ hist' = <<>>
    /\ last' = [op |-> "empty", text |-> <<>>, prev |-> stack, emitted |-> <<>>]
    /\ fresh' = [FreshFolder EXCEPT !.phase = "ok"]
    /\ UNCHANGED <<phase, stack, nlines, numIn, numOut, probeIn, probeOut>>

\* collapse on an input whose first line is not the header (lines 29-36)
CollapseBadHeader ==
    /\ phase = "idle"
    /\ start' = stack
    /\ \E h \in Headers :
        /\ ~line_matches_start_line(h)
        /\ last' = [op |-> "bad_header", text |-> h, prev |-> stack, emitted |-> <<>>]
    /\ result' = "err"
    /\ samples' = <<>>
    /\ out' = {}
    /\ hist' = <<>>
    /\ fresh' = [FreshFolder EXCEPT !.phase = "err"]
    /\ UNCHANGED <<phase, stack, nlines, numIn, numOut, probeIn, probeOut>>

\* collapse reads the header and enters the data loop (lines 29-39)
CollapseHeader ==
    /\ phase = "idle"
    /\ start' = stack
    /\ \E h \in Headers :
        /\ line_matches_start_line(h)
        /\ last' = [op |-> "header", text |-> h, prev |-> stack, emitted |-> <<>>]
    /\ phase' = "data"
    /\ result' = "none"
    /\ samples' = <<>>
    /\ out' = {}
    /\ hist' = <<>>
    /\ fresh' = [FreshFolder EXCEPT !.phase = "data"]
    /\ UNCHANGED <<stack, nlines, numIn, numOut, probeIn, probeOut>>

\* an iteration of the data loop on a line that is empty once trimmed (lines 41-48)
SkipBlank ==
    /\ phase = "data"
    /\ nlines < MaxLines
    /\ \E raw \in RawLines :
        /\ TrimEnd(raw) = <<>>
        /\ last' = [op |-> "blank", text |-> raw, prev |-> stack, emitted |-> <<>>]
    /\ nlines' = nlines + 1
    /\ UNCHANGED <<phase, result, start, stack, samples, out, hist, fresh, numIn, numOut, probeIn, probeOut>>

\* the data loop going on to the next line after an error of on_line
AfterLineContinues(kind) ==
    IF kind = "panic" THEN "panicked" ELSE "data"

\* where collapse is after on_line returned: in the loop, returned by `?`, or
\* unwinding from the assertion
AfterLine(kind) ==
    CASE kind = "ok" -> "data"
      [] kind = "err" -> "idle"
      [] kind = "panic" -> "panicked"

\* the data loop after on_line returned r for the trimmed line (lines 50-51)
AfterOnLine(text, p, r) ==
    /\ last' = [op |-> r.case, text |-> text, prev |-> stack, emitted |-> r.emitted]
    /\ stack' = r.stack
    /\ samples' = samples \o r.emitted
    /\ hist' = IF r.kind = "ok"
               THEN Append(hist, [depth |-> p.depth, f |-> p.function_name,
                                  n |-> p.number_of_calls])
               ELSE hist
    /\ phase' = AfterLine(r.kind)
    /\ result' = IF r.kind = "err" THEN "err" ELSE result
    /\ fresh' = FreshLine(fresh, text)
    /\ nlines' = nlines + 1
    /\ UNCHANGED <<start, out, numIn, numOut, probeIn, probeOut>>

\* the body of the data loop on a trimmed line that is not empty (lines 47-51)
FeedTrimmed(text) ==
    /\ text # <<>>
    /\ AfterOnLine(text, ParseLine(text), on_line(stack, text))

\* the body of the data loop (lines 45-51)
Feed(raw) == FeedTrimmed(TrimEnd(raw))

\* an iteration of the data loop that hands the line to on_line (lines 41-51)
OnLine ==
    /\ phase = "data"
    /\ nlines < MaxLines
    /\ \E raw \in RawLines : Feed(raw)

\* collapse from the final write_stack on (lines 54-61)
Finish(emitted) ==
    /\ samples' = samples \o emitted
    /\ out' = write_and_clear(samples \o emitted)
    /\ last' = [op |-> "finish", text |-> <<>>, prev |-> stack, emitted |-> emitted]
    /\ stack' = <<>>
    /\ phase' = "idle"
    /\ result' = "ok"
    /\ fresh' = FreshEnd(fresh)
    /\ UNCHANGED <<start, hist, nlines, numIn, numOut, probeIn, probeOut>>

\* the input ends: the rest of collapse (lines 42-44 and 54-61)
EndOfInput ==
    /\ phase = "data"
    /\ Finish(write_stack(stack))

Next ==
    \/ CollapseEmpty
    \/ CollapseBadHeader
    \/ CollapseHeader
    \/ SkipBlank
    \/ OnLine
    \/ EndOfInput

Spec == Init /\ [][Next]_vars

-----------------------------------------------------------------------------
(* One collapse call of a new Folder on a report whose lines are in the report
   format and whose levels never jump: a pre-order traversal of call trees in
   which a function at level d is named after d, so that no name repeats on a
   path *)

TreeCalls == {1, 2, 3}

TreeName(d) == <<"f">> \o DigitsOf(d)

TreeHeader ==
    /\ last = NoStep
    /\ CollapseHeader

TreeLine ==
    /\ phase = "data"
    /\ nlines < MaxTreeLines
    /\ \E d \in 1..(Len(stack) + 1), c \in TreeCalls :
        Feed(FormatLine(d, TreeName(d), c, RestFields \o <<"\n">>))

NextTree ==
    \/ TreeHeader
    \/ TreeLine
    \/ EndOfInput

SpecTree == Init /\ [][NextTree]_vars

-----------------------------------------------------------------------------
(* One collapse call of a new Folder on a report made of the lines of the
   example report, in any order and number *)

ExampleLines ==
    << [depth |-> 1, f |-> <<"M", "a", "i", "n">>, n |-> 1],
       [depth |-> 2, f |-> <<"A">>, n |-> 500],
       [depth |-> 3, f |-> <<"B">>, n |-> 300],
       [depth |-> 3, f |-> <<"C">>, n |-> 200],
       [depth |-> 2, f |-> <<"D">>, n |-> 100] >>

ExampleLine ==
    /\ phase = "data"
    /\ nlines < MaxScenarioLines
    /\ \E i \in 1..Len(ExampleLines) :
        Feed(FormatLine(ExampleLines[i].depth, ExampleLines[i].f, ExampleLines[i].n,
                        RestFields \o <<"\n">>))

NextExample ==
    \/ TreeHeader
    \/ ExampleLine
    \/ EndOfInput

SpecExample == Init /\ [][NextExample]_vars

-----------------------------------------------------------------------------
(* Claims about Folder *)

LineOps == {"descend", "sibling", "ascend"}

LastLine == hist[Len(hist)]

RECURSIVE SumW(_)
SumW(smp) == IF smp = <<>> THEN 0 ELSE Head(smp).w + SumW(Tail(smp))

RECURSIVE SumCalls(_)
SumCalls(h) == IF h = <<>> THEN 0 ELSE Head(h).n + SumCalls(Tail(h))

RECURSIVE SumOrig(_)
SumOrig(stk) == IF stk = <<>> THEN 0 ELSE Head(stk).o + SumOrig(Tail(stk))

Min(a, b) == IF a < b THEN a ELSE b

\* the line of h that is the ancestor at level d of line i
AncestorAt(h, i, d) ==
    CHOOSE j \in 1..(i - 1) :
        h[j].depth = d /\ \A k \in (j + 1)..(i - 1) : h[k].depth # d

\* h is the pre-order traversal of one call tree whose root is at level 1 and
\* in which no function name repeats on a path
ValidTree(h) ==
    /\ h # <<>>
    /\ h[1].depth = 1
    /\ \A i \in 2..Len(h) : h[i].depth \in 2..(h[i - 1].depth + 1)
    /\ \A i \in 2..Len(h) : \A d \in 1..(h[i].depth - 1) : h[AncestorAt(h, i, d)].f # h[i].f

\* for every adjacent pair of frames, the number of calls reported for the
\* deeper one is at most the current number of calls of the one below it
Ordered(stk) == \A i \in 1..(Len(stk) - 1) : stk[i + 1].o <= stk[i].n

\* C1: right after on_line processed a line of depth >= 1 (a line of depth
\* greater than the stack length + 1 is not processed), the stack length is
\* the depth of that line.
C1_DepthInvariant ==
    (last.op \in LineOps /\ LastLine.depth >= 1) => Len(stack) = LastLine.depth

C1_Witness ==
    /\ last.op = "ascend"
    /\ Len(last.prev) = 3
    /\ LastLine.depth = 1
    /\ Len(stack) = 1

\* C2 as claimed: when a run of a new Folder on one call tree without recursion
\* has ended, the weights of the samples it emitted add up to the number of
\* calls of the root line.
C2_Conservation ==
    (last.op = "finish" /\ start = <<>> /\ ValidTree(hist))
        => SumW(samples) = hist[1].n

\* C2 as amended: when such a run has ended, the weights of the samples it
\* emitted add up to at most the numbers of calls reported on the lines whose
\* frames were closed (every line but those of the frames left below the top
\* at the end of input); they add up to the number of calls of the root line
\* when the root line is the only line.
C2_EmittedAtMostClosed ==
    (last.op = "finish" /\ start = <<>> /\ ValidTree(hist))
        => /\ SumW(samples) <= SumCalls(hist) - SumOrig(Pop(last.prev))
           /\ Len(hist) = 1 => SumW(samples) = hist[1].n

C2_Witness ==
    /\ last.op = "finish"
    /\ start = <<>>
    /\ ValidTree(hist)
    /\ Len(hist) = 5
    /\ hist[4].depth < hist[3].depth
    /\ SumW(samples) # hist[1].n

\* C3: whatever the earlier runs on a Folder were, the stack is empty when the
\* next run starts, and a run that ends writes what a new Folder writes for the
\* same input.
C3_ReuseWithoutContamination ==
    /\ last.op \in {"empty", "bad_header", "header"} => start = <<>>
    /\ last.op = "finish" => (fresh.phase = "ok" /\ out = fresh.out)

\* C4 as claimed: on_line emits at most one sample for a line, and so does the
\* end of input.
C4_AtMostOneSample == Len(last.emitted) <= 1

\* C4 as amended: on_line emits no sample on a descend, at most one on a
\* sibling and at most one per frame it closes on an ascend (prev_depth -
\* depth + 1 frames, or the whole stack if that is less); the end of input
\* emits at most one; no other step emits.
C4_EmissionBound ==
    /\ last.op = "sibling" => Len(last.emitted) <= 1
    /\ last.op = "ascend" =>
         Len(last.emitted) <= Min(Len(last.prev), Len(last.prev) - LastLine.depth + 1)
    /\ last.op = "finish" => Len(last.emitted) <= 1
    /\ last.op \notin {"sibling", "ascend", "finish"} => last.emitted = <<>>

C4_Witness ==
    /\ last.op = "ascend"
    /\ Len(last.prev) = 3
    /\ LastLine.depth = 2
    /\ Len(last.emitted) = 2

\* C5 as claimed: after on_line processed a line, the frames of the stack are
\* ordered: each deeper frame's reported number of calls is at most the
\* current number of calls of the frame below it.
C5_AdjacentOrdering == last.op \in LineOps => Ordered(stack)

\* C5 as amended: on_line keeps the frames ordered when the line it processes
\* reports no more calls than the frame it is pushed onto has left: if the
\* frames are ordered before the line and the new top's number of calls is at
\* most the current number of calls of the frame below it, the frames are
\* ordered after the line.
C5_OrderingPreserved ==
    [][ ( /\ last'.op \in LineOps
          /\ Ordered(stack)
          /\ Len(stack') >= 2 =>
                stack'[Len(stack')].o <= stack'[Len(stack') - 1].n )
        => Ordered(stack') ]_vars

C5_Witness ==
    /\ last.op = "ascend"
    /\ Len(last.prev) = 4
    /\ Len(stack) = 3
    /\ Ordered(last.prev)
    /\ Ordered(stack)
    /\ stack[2].n < stack[2].o

\* C6: every sample handed to the sink and every line written has a weight of
\* at least 1, and a frame whose number of calls is 0 when it is closed gets no
\* sample.
C6_ZeroWeightSuppression ==
    /\ \A i \in 1..Len(samples) : samples[i].w >= 1
    /\ \A l \in out : l.w >= 1
    /\ ( /\ last.op \in {"sibling", "ascend", "finish"}
         /\ last.prev # <<>>
         /\ last.prev[Len(last.prev)].n = 0 )
       => \A i \in 1..Len(last.emitted) : last.emitted[i].path # JoinNames(last.prev)

C6_Witness ==
    /\ last.op = "ascend"
    /\ last.prev[Len(last.prev)].n = 0
    /\ Len(last.emitted) = 1

\* C7: a line whose depth is greater than the stack length + 1 fails the run
\* at that line, with the stack as it was and no sample emitted.
C7_TreeStructureViolation ==
    ( /\ last.op \in LineOps \cup {"panic"}
      /\ ParseLine(last.text).depth > Len(last.prev) + 1 )
    => /\ last.op = "panic"
       /\ phase = "panicked"
       /\ stack = last.prev
       /\ last.emitted = <<>>

C7_Witness ==
    /\ last.op = "panic"
    /\ phase = "panicked"
    /\ Len(last.prev) = 1
    /\ samples # <<>>

\* C8: a line that does not parse ends collapse with an error at that line:
\* the data loop is left, the stack is as it was, no sample is emitted and
\* nothing is written, whatever samples were emitted before.
C8_ParseErrorAbort ==
    ( /\ last.op \in LineOps \cup {"panic", "parse_error"}
      /\ ~ParseLine(last.text).ok )
    => /\ last.op = "parse_error"
       /\ phase = "idle"
       /\ result = "err"
       /\ stack = last.prev
       /\ last.emitted = <<>>
       /\ out = {}

C8_Witness ==
    /\ last.op = "parse_error"
    /\ samples # <<>>
    /\ result = "err"
    /\ out = {}

\* C12: a collapse call on an input with no line, or with the header line
\* and blank lines only, returns success and writes nothing, on any Folder.
C12_EmptyAndHeaderOnly ==
    /\ last.op = "empty" => (result = "ok" /\ out = {})
    /\ (last.op = "finish" /\ hist = <<>>) => (result = "ok" /\ out = {})

\* C13: a new Folder given the five lines of the example report, then the end
\* of input, emits the samples Main;A;B=300, Main;A;C=200, Main;A=300 and
\* Main;D=100, each once, and no other sample.
C13_EndToEnd ==
    (last.op = "finish" /\ start = <<>> /\ hist = ExampleLines)
        => /\ Len(samples) = 4
           /\ { samples[i] : i \in 1..Len(samples) } =
                { [path |-> <<"M", "a", "i", "n", ";", "A", ";", "B">>, w |-> 300],
                  [path |-> <<"M", "a", "i", "n", ";", "A", ";", "C">>, w |-> 200],
                  [path |-> <<"M", "a", "i", "n", ";", "A">>, w |-> 300],
                  [path |-> <<"M", "a", "i", "n", ";", "D">>, w |-> 100] }

C13_Witness ==
    /\ last.op = "finish"
    /\ start = <<>>
    /\ hist = ExampleLines
    /\ Len(samples) = 4

\* the count frame i of stk has when an ascend from the top of stk reaches it
RECURSIVE CountWhenTop(_, _)
CountWhenTop(stk, i) ==
    IF i = Len(stk) THEN stk[i].n
    ELSE LET c == CountWhenTop(stk, i + 1)
         IN  IF c < stk[i].n THEN stk[i].n - c ELSE stk[i].n

\* the count the frame popped before frame i had when it was popped
CarryAt(stk, i) == IF i = Len(stk) THEN 0 ELSE CountWhenTop(stk, i + 1)

\* the samples of an ascend that closes the frames i down to lo of stk
RECURSIVE ClosingSamples(_, _, _)
ClosingSamples(stk, i, lo) ==
    IF i < lo THEN <<>>
    ELSE (IF CountWhenTop(stk, i) # 0 /\ CountWhenTop(stk, i) # CarryAt(stk, i)
          THEN <<[path |-> JoinNames(SubSeq(stk, 1, i)), w |-> CountWhenTop(stk, i)]>>
          ELSE <<>>)
         \o ClosingSamples(stk, i - 1, lo)

\* C15: an ascend closes the frames from the top down to the new line's depth;
\* a closed frame is emitted (its full path, weight its current count) iff its
\* current count is non-zero and differs from the current count the frame popped
\* before it had (0 for the first); the first frame closed is emitted whenever
\* its count is non-zero.
C15_AscendDuplicateGuard ==
    last.op = "ascend" =>
        /\ last.emitted =
             ClosingSamples(last.prev, Len(last.prev), IF LastLine.depth = 0 THEN 1 ELSE LastLine.depth)
        /\ last.prev[Len(last.prev)].n # 0 =>
             /\ last.emitted # <<>>
             /\ Head(last.emitted).w = last.prev[Len(last.prev)].n

C15_Witness ==
    /\ last.op = "ascend"
    /\ LastLine.depth >= 1
    /\ last.emitted # <<>>
    /\ \E i \in LastLine.depth..(Len(last.prev) - 1) :
        /\ CountWhenTop(last.prev, i) # 0
        /\ CountWhenTop(last.prev, i) = CarryAt(last.prev, i)

\* the depth down to which the ascend of the last line closed frames
ClosedFrom == IF LastLine.depth = 0 THEN 1 ELSE LastLine.depth

\* C16: in an ascend the frame that becomes the top, of current count p, after
\* a frame of count c is popped, gets p - c if c < p and keeps p otherwise, and
\* frames further down are not touched; in every state each frame's count is
\* between 0 and the count its line reported, and is at least 1 when the
\* reported count is at least 1.
C16_BoundedCorrection ==
    /\ \A i \in 1..Len(stack) :
        /\ 0 <= stack[i].n
        /\ stack[i].n <= stack[i].o
        /\ stack[i].o >= 1 => stack[i].n >= 1
    /\ last.op = "ascend" =>
        \A i \in 1..(ClosedFrom - 1) :
            stack[i].n =
                IF i = ClosedFrom - 1
                THEN IF CountWhenTop(last.prev, ClosedFrom) < last.prev[i].n
                     THEN last.prev[i].n - CountWhenTop(last.prev, ClosedFrom)
                     ELSE last.prev[i].n
                ELSE last.prev[i].n

C16_Witness ==
    /\ last.op = "ascend"
    /\ ClosedFrom >= 2
    /\ stack[ClosedFrom - 1].n < last.prev[ClosedFrom - 1].n
    /\ stack[ClosedFrom - 1].n >= 1

-----------------------------------------------------------------------------
(* get_next_number on its own: the inputs are drawn by the initial state *)

FieldChars == {"0", "1", "5", ",", "."}

\* texts of a number field
Fields == UNION { [1..k -> FieldChars] : k \in 1..MaxFieldLen }

\* what follows a number on a line
Rests == { <<>>, <<",">>, <<"4", ",">>, <<"\"", "a", "\"", ",">> }

BigNumbers == {999999, 1000000, 2893824}

NumInputs ==
    { [kind |-> "field", field |-> t, quoted |-> TRUE,
       text |-> <<"\"">> \o t \o <<"\"", ",", "4", ",">>] : t \in Fields }
    \cup
    { [kind |-> "field", field |-> t, quoted |-> FALSE,
       text |-> t \o <<",", "4", ",">>] : t \in { u \in Fields : FirstIn(u, {","}) = 0 } }
    \cup
    { [kind |-> "written", n |-> n, lead |-> b, rest |-> r,
       text |-> (IF b THEN <<",">> ELSE <<>>) \o FormatNumber(n) \o r] :
          n \in (0..MaxNumber) \cup BigNumbers, b \in BOOLEAN, r \in Rests }

Pending == [ok |-> FALSE, err |-> "pending"]

InitNum ==
    /\ phase = "idle"
    /\ result = "none"
    /\ start = <<>>
    /\ stack = <<>>
    /\ samples = <<>>
    /\ out = {}
    /\ hist = <<>>
    /\ last = NoStep
    /\ nlines = 0
    /\ fresh = FreshFolder
    /\ numIn \in NumInputs
    /\ numOut = Pending
    /\ probeIn = <<>>
    /\ probeOut = "pending"

CallGetNextNumber ==
    /\ numOut = Pending
    /\ numOut' = get_next_number(numIn.text)
    /\ UNCHANGED <<phase, result, start, stack, samples, out, hist, last, nlines, fresh,
                   numIn, probeIn, probeOut>>

NextNum == CallGetNextNumber

SpecNum == InitNum /\ [][NextNum]_vars

-----------------------------------------------------------------------------
(* Claims about get_next_number *)

\* str::split(char), collected
RECURSIVE SplitOn(_, _)
SplitOn(s, c) ==
    LET i == FirstIn(s, {c})
    IN  IF i = 0 THEN <<s>>
        ELSE <<SubSeq(s, 1, i - 1)>> \o SplitOn(SubSeq(s, i + 1, Len(s)), c)

\* a leftmost group of 1 to 3 digits, then groups of exactly 3 digits, separated by ','
WellGrouped(t) ==
    LET groups == SplitOn(t, ",")
    IN  /\ \A i \in 1..Len(t) : t[i] \in Digits \cup {","}
        /\ Len(groups[1]) \in 1..3
        /\ \A i \in 2..Len(groups) : Len(groups[i]) = 3

\* C9: get_next_number succeeds on a number field only when the field is a
\* leftmost group of 1 to 3 digits followed by groups of exactly 3 digits
\* separated by ','; every other field is rejected.
C9_GroupingValidation ==
    (numIn.kind = "field" /\ numOut # Pending /\ numOut.ok) => WellGrouped(numIn.field)

\* C10: get_next_number returns exactly (n, rest) for n written in the report
\* format, with or without a leading ',', whether the number is bare or quoted.
C10_NumberRoundTrip ==
    (numIn.kind = "written" /\ numOut # Pending)
        => numOut = [ok |-> TRUE, n |-> numIn.n, rest |-> numIn.rest]

C10_Witness ==
    /\ numIn.kind = "written"
    /\ numIn.n = 2893824
    /\ numIn.lead
    /\ numIn.rest = <<",">>
    /\ numOut = [ok |-> TRUE, n |-> 2893824, rest |-> <<",">>]
-----------------------------------------------------------------------------
(* is_applicable on its own: the input is drawn by the initial state *)

ProbeChars == {" ", BOM, START_LINE[1], "x", "\n"}

ProbeInputs == UNION { [1..k -> ProbeChars] : k \in 0..MaxProbeLen }

InitProbe ==
    /\ phase = "idle"
    /\ result = "none"
    /\ start = <<>>
    /\ stack = <<>>
    /\ samples = <<>>
    /\ out = {}
    /\ hist = <<>>
    /\ last = NoStep
    /\ nlines = 0
    /\ fresh = FreshFolder
    /\ numIn = [kind |-> "none"]
    /\ numOut = Pending
    /\ probeIn \in ProbeInputs
    /\ probeOut = "pending"

CallIsApplicable ==
    /\ probeOut = "pending"
    /\ probeOut' = is_applicable(probeIn)
    /\ UNCHANGED <<phase, result, start, stack, samples, out, hist, last, nlines, fresh,
                   numIn, numOut, probeIn>>

NextProbe == CallIsApplicable

SpecProbe == InitProbe /\ [][NextProbe]_vars

\* the line without the white space at its ends
Bare(text) ==
    LET keep == { i \in 1..Len(text) : text[i] \notin Whitespace }
    IN  IF keep = {} THEN <<>>
        ELSE SubSeq(text, CHOOSE i \in keep : \A j \in keep : i <= j,
                          CHOOSE i \in keep : \A j \in keep : i >= j)

\* C11 as claimed: is_applicable returns true when the first line is exactly
\* the signature, optionally after one marker, with white space around, and
\* false for every other first line.
C11_HeaderDetection ==
    (probeOut \in {"true", "false"})
        => (probeOut = "true"
               <=> Bare(FirstLine(probeIn)) \in {START_LINE, <<BOM>> \o START_LINE})

\* C11 as amended: is_applicable returns true exactly when the first line,
\* without the white space at its ends and without the markers it begins
\* with, begins with the signature: whatever follows the signature is
\* ignored, any number of markers is skipped, and white space between a
\* marker and the signature makes it false.
C11_HeaderPrefix ==
    (probeOut \in {"true", "false"})
        => (probeOut = "true"
               <=> LET t == Bare(FirstLine(probeIn))
                   IN  \E i \in 1..Len(t) :
                          /\ t[i] = START_LINE[1]
                          /\ \A j \in 1..(i - 1) : t[j] = BOM)

C11_Witness ==
    /\ probeIn = <<" ", BOM, START_LINE[1], "x">>
    /\ probeOut = "true"

-----------------------------------------------------------------------------
(* One collapse call of a new Folder on lines whose first three fields and
   whose remaining fields are each well formed or not *)

\* what may follow the number of calls: the fields of the report format, nothing,
\* a single numeric field, text that is no field
ShapeTails ==
    { RestFields, <<>>, <<"0", ".", "5", ",">>, <<"x">> }

\* the first three fields of a line in the report format
ShapeCalls == {1, 2}

ShapeHead(d, c) == FormatLine(d, TreeName(d), c, <<>>)

\* first three fields that are not in the report format: a function name
\* without quotes, a number of calls that is no number
ShapeBadHeads ==
    { <<"1", ",", "f", "1", ",", "1", ",">>,
      <<"1", ",", "\"", "f", "1", "\"", ",", "x", ",">> }

ShapeLine ==
    /\ phase = "data"
    /\ nlines < MaxShapeLines
    /\ \E tail \in ShapeTails :
        \/ \E d \in 1..(Len(stack) + 1), c \in ShapeCalls :
            Feed(ShapeHead(d, c) \o tail \o <<"\n">>)
        \/ \E head \in ShapeBadHeads : Feed(head \o tail \o <<"\n">>)

NextShape ==
    \/ TreeHeader
    \/ ShapeLine
    \/ EndOfInput

SpecShape == Init /\ [][NextShape]_vars

NumericField(t) == t # <<>> /\ \A i \in 1..Len(t) : t[i] \in Digits \cup {"."}

QuotedField(t) == Len(t) >= 2 /\ t[1] = "\"" /\ t[Len(t)] = "\""

\* four numeric fields, a quoted module name, a trailing comma
FixedShape(rest) ==
    LET fields == SplitOn(rest, ",")
    IN  /\ Len(fields) = 6
        /\ \A i \in 1..4 : NumericField(fields[i])
        /\ QuotedField(fields[5])
        /\ fields[6] = <<>>

\* the line starts with three well formed fields for some level
WellHeaded(text) ==
    \E d \in 1..Len(text), c \in ShapeCalls : StartsWith(text, ShapeHead(d, c))

\* what follows the three well formed fields
TailOf(text) ==
    LET h == CHOOSE h \in (1..Len(text)) \X ShapeCalls :
                 StartsWith(text, ShapeHead(h[1], h[2]))
    IN  SubSeq(text, Len(ShapeHead(h[1], h[2])) + 1, Len(text))

\* C14 as stated: a data line is accepted by on_line only if the fields after
\* the number of calls have the fixed shape (four numeric fields, a quoted
\* module name, a trailing comma); otherwise it is rejected with a parse error.
C14_TrailingShape ==
    (last.op \in LineOps \cup {"parse_error", "panic"} /\ WellHeaded(last.text))
        => (last.op = "parse_error" <=> ~FixedShape(TailOf(last.text)))

\* C14: on_line accepts a line exactly when its depth, quoted function name and
\* number of calls are well formed; what follows the number of calls is not
\* examined, and the line has the effect of the line with the fields after the
\* number of calls in the fixed shape.
C14_TrailingIgnored ==
    last.op \in LineOps \cup {"parse_error", "panic"}
        => /\ last.op = "parse_error" <=> ~WellHeaded(last.text)
           /\ WellHeaded(last.text) =>
                LET d == Len(last.text) - Len(TailOf(last.text))
                    full == on_line(last.prev, SubSeq(last.text, 1, d) \o RestFields)
                IN  /\ stack = full.stack
                    /\ last.emitted = full.emitted
                    /\ last.op = full.case

C14_Witness ==
    /\ last.op \in LineOps
    /\ WellHeaded(last.text)
    /\ ~FixedShape(TailOf(last.text))
    /\ stack # <<>>

-----------------------------------------------------------------------------
(* Further claims about Folder *)

\* the function names of the frames of stk, bottom first
NamesOf(stk) == [i \in 1..Len(stk) |-> stk[i].f]

\* C17: at the end of the data lines exactly one sample is written iff the
\* stack is not empty and its top frame's count is not 0: the names of all the
\* frames joined by ';', weighted by the top frame's count; no other sample is
\* written, and the call returns success.
C17_FinalEmission ==
    last.op = "finish" =>
        /\ result = "ok"
        /\ phase = "idle"
        /\ IF last.prev # <<>> /\ last.prev[Len(last.prev)].n # 0
           THEN /\ Len(last.emitted) = 1
                /\ SplitOn(last.emitted[1].path, ";") = NamesOf(last.prev)
                /\ last.emitted[1].w = last.prev[Len(last.prev)].n
           ELSE last.emitted = <<>>

C17_Witness ==
    /\ last.op = "finish"
    /\ Len(last.prev) >= 2
    /\ Len(last.emitted) = 1
    /\ last.prev[1].n # last.prev[Len(last.prev)].n

\* C18: a descend writes no sample and keeps every frame already on the stack;
\* a sibling replaces the top frame only and keeps every frame below it, the
\* closed leaf's count is not subtracted from its parent; no step other than an
\* ascend changes the count of a frame that stays on the stack.
C18_FrameEffect ==
    /\ last.op = "descend" =>
        /\ last.emitted = <<>>
        /\ stack = Append(last.prev, Frame(LastLine.f, LastLine.n))
    /\ last.op = "sibling" =>
        stack = Append(Pop(last.prev), Frame(LastLine.f, LastLine.n))
    /\ last.op \in {"header", "blank", "parse_error", "panic"} => stack = last.prev

C18_Witness ==
    /\ last.op = "sibling"
    /\ Len(last.prev) >= 2
    /\ last.prev[Len(last.prev)].n < last.prev[Len(last.prev) - 1].n
    /\ stack[Len(stack) - 1].n = last.prev[Len(last.prev) - 1].n

-----------------------------------------------------------------------------
(* One collapse call of a new Folder on a report whose levels never jump and
   in which the same function names occur at every level *)

PathNames == {<<"a">>, <<"b">>}

PathCalls == {1, 2}

PathLine ==
    /\ phase = "data"
    /\ nlines < MaxPathLines
    /\ \E d \in 1..(Len(stack) + 1), f \in PathNames, c \in PathCalls :
        Feed(FormatLine(d, f, c, RestFields \o <<"\n">>))

NextPath ==
    \/ TreeHeader
    \/ PathLine
    \/ EndOfInput

SpecPath == Init /\ [][NextPath]_vars

\* the index in h of the most recent line of depth d
MostRecent(h, d) ==
    CHOOSE k \in 1..Len(h) :
        /\ h[k].depth = d
        /\ \A j \in (k + 1)..Len(h) : h[j].depth # d

\* the names of the most recent lines of depth 1 to k in h
PathAt(h, k) == [i \in 1..k |-> h[MostRecent(h, i)].f]

\* C19: in a run that starts with an empty stack, after valid data lines the
\* frame at index i (from 0) has the name of the most recent line of depth
\* i + 1, and the path of every sample written is the names of the frames from
\* the bottom to the top at the time of writing, joined by ';': the path from a
\* root of the input tree to the node being closed.
C19_PathCorrectness ==
    /\ (phase = "data" /\ hist # <<>>) =>
        /\ Len(stack) = LastLine.depth
        /\ NamesOf(stack) = PathAt(hist, Len(stack))
    /\ last.op \in LineOps =>
        \A j \in 1..Len(last.emitted) :
            \E k \in LastLine.depth..Len(last.prev) :
                SplitOn(last.emitted[j].path, ";") = PathAt(Pop(hist), k)
    /\ last.op = "finish" =>
        \A j \in 1..Len(last.emitted) :
            SplitOn(last.emitted[j].path, ";") = PathAt(hist, Len(last.prev))

C19_Witness ==
    /\ last.op = "ascend"
    /\ Len(last.emitted) = 2
    /\ Len(hist) = 4
    /\ hist[1].f # hist[2].f
    /\ hist[2].f # hist[3].f
    /\ stack # <<>>

\* the number of names in the path of a sample
PathLen(sample) == Len(SplitOn(sample.path, ";"))

\* C20: a line's frame gets at most one sample, written at the step that
\* closes it: a line step writes samples only for frames it closes (those at
\* the new line's depth or deeper), deepest first and at most one each; the end
\* of input writes at most one, for the top frame; a descend writes none; so
\* the samples written never outnumber the closed frames (those of the lines of
\* the run and those the stack held when the run began).
C20_EmitOncePostOrder ==
    /\ last.op = "descend" => last.emitted = <<>>
    /\ last.op \in {"sibling", "ascend"} =>
        /\ \A j \in 1..Len(last.emitted) :
            /\ PathLen(last.emitted[j]) >= LastLine.depth
            /\ PathLen(last.emitted[j]) <= Len(last.prev)
        /\ \A j \in 1..(Len(last.emitted) - 1) :
            PathLen(last.emitted[j]) > PathLen(last.emitted[j + 1])
    /\ last.op = "finish" =>
        /\ Len(last.emitted) <= 1
        /\ \A j \in 1..Len(last.emitted) : PathLen(last.emitted[j]) = Len(last.prev)
        /\ Len(samples) <= Len(start) + Len(hist)
    /\ phase = "data" => Len(samples) <= Len(start) + Len(hist) - Len(stack)

C20_Witness ==
    /\ last.op = "ascend"
    /\ Len(last.emitted) >= 2
    /\ PathLen(last.emitted[1]) = Len(last.prev)
    /\ PathLen(last.emitted[2]) = Len(last.prev) - 1

====
